---- MODULE Spec2Model ----
(***************************************************************************)
(* A model of Fulcrum's synchronization Controller (src/Controller.cpp):   *)
(* the state machine driven by Controller::process, the chain-info probe   *)
(* (GetChainInfoTask), the block download tasks (DownloadBlocksTask), the  *)
(* in-order reassembly of blocks (putBlock / process_DownloadingBlocks)    *)
(* and header verification (process_VerifyAndAddBlock).                    *)
(*                                                                         *)
(* Execution contexts.  The Controller runs on one thread; everything that *)
(* reaches it is a posted event.  The model keeps, per task, the FIFO of   *)
(* the events that task has posted to the Controller (putBlock, success,   *)
(* errored, finished), a count of the queued process() re-entries (AGAIN), *)
(* and the named timers.  Events of different origins interleave freely.   *)
(***************************************************************************)
EXTENDS Integers, Sequences, FiniteSets, TLC

\* ---------------------------------------------------------------- bounds
MaxHeight == 3          \* bitcoind's tip never exceeds this height
MaxMined == 1           \* blocks bitcoind's chain grows by in one run
MaxLost == 1            \* allConnectionsLost events in one run
MaxBad == 1             \* RPC replies that fail or are rejected in one run
MaxTasks == 3           \* live entries of Controller::tasks
MaxGen == 2             \* state machines created in one run
MaxHooks == 2           \* gotFirstGoodConnection hooks connected at once
MaxCount == 3           \* signal and save counters stop counting here
MaxTaskHeight == 8      \* highest block a download task on its own is given
MaxStride == 3          \* largest stride a download task on its own is given

\* ------------------------------------------------------ program constants
DL_CONCURRENCY == 2     \* qMax(nPhysicalProcessors - 1, 1) on a 3-core host
N_CLIENTS == 3          \* BitcoinDMgr::N_CLIENTS
max_q == N_CLIENTS + 1
polltime_ms == 5000
HEADER_SIZE == 80       \* BTC::GetBlockHeaderSize()
HASH_WIDTH == 32        \* bitcoin::uint256::width()
ibdPolltime_ms == 60 * 1000

TaskIds == 1 .. MaxTasks
Heights == 0 .. MaxHeight
Chains == {"main", "test"}

Min(a, b) == IF a < b THEN a ELSE b
Max(a, b) == IF a > b THEN a ELSE b

\* One more on a counter that stops counting at MaxCount.
Count(n) == Min(n + 1, MaxCount)

\* -------------------------------------------------------- blocks, headers
\* A block is identified by its height and the branch it is on: branch 1 is
\* the chain bitcoind switched to at height `fork` (0: no reorg happened).
NoHdr == [ht |-> -1, br |-> 0]

VARIABLES
    sm,             \* Controller::sm (state "None": the pointer is null)
    smGen,          \* how many StateMachine objects were created (up to MaxGen)
    tasks,          \* Controller::tasks, by slot
    procPending,    \* queued process() calls (AGAIN on the Controller)
    pollTimer,      \* interval the poll timer is armed with, 0: not armed
    callProcessTimer, \* the "callProcess" timer is armed
    waitTimer,      \* the "wait4bitcoind" timer is running
    hooks,          \* connected gotFirstGoodConnection one-shot hooks
    headers,        \* Storage: the header vector
    chain,          \* Storage: the chain name ("" when unset)
    verif,          \* Storage: the shared header verifier (last header)
    saves,          \* Storage::save(Hdrs) calls enqueued (up to MaxCount)
    emitted,        \* signals emitted, each counted up to MaxCount
    fatal,          \* Fatal() was logged: the application is exiting
    srv,            \* the upToDate one-shot hook of startup() and the SrvMgr
    rpcIds,         \* two RPCMsgId objects and the last operation on them
    bitcoind        \* the remote daemon: connected, tip, chain, ibd, fork

vars == << sm, smGen, tasks, procPending, pollTimer, callProcessTimer, waitTimer,
           hooks, headers, chain, verif, saves, emitted, fatal, srv, rpcIds,
           bitcoind >>

ctlVars == << sm, smGen, procPending, pollTimer, callProcessTimer, waitTimer,
              hooks, emitted, fatal, srv >>
storageVars == << headers, chain, verif, saves >>
timerVars == << pollTimer, callProcessTimer, waitTimer, hooks >>

\* The block bitcoind serves for height h.
Blk(h) == [ht |-> h, br |-> IF bitcoind.fork > 0 /\ h >= bitcoind.fork THEN 1 ELSE 0]

\* The block a header links to through its prev-hash field.
Parent(b) == [ht |-> b.ht - 1,
              br |-> IF b.br = 1 /\ b.ht - 1 >= bitcoind.fork THEN 1 ELSE 0]

\* ----------------------------------------------------------- StateMachine
\* `failed` and `ranGetBlocks` are history, not members of the source: this
\* state machine has been in state Failure; State::GetBlocks has run for it.
NoSM == [state |-> "None", ht |-> -1, ppBlocks |-> {},
         ppBlkHtNext |-> 0, startheight |-> 0, endHeight |-> 0,
         failed |-> FALSE, ranGetBlocks |-> FALSE]

NewSM == [NoSM EXCEPT !.state = "Begin"]

\* ------------------------------------------------------------------ tasks
NoInfo == [blocks |-> 0, chain |-> "", ibd |-> FALSE]

\* What bitcoind answered to the requests of do_get for height h: the
\* decoded length of the getblockhash result and the hash it stands for,
\* the decoded length of the getblock result and the header it starts with.
NoReply == [h |-> -1, hashLen |-> 0, hash |-> -1, rawLen |-> 0, hdr |-> NoHdr]

NoTask == [kind |-> "none", gen |-> 0, running |-> FALSE, rep |-> NoReply,
           silent |-> FALSE, info |-> NoInfo,
           from |-> 0, to |-> 0, stride |-> 1, expectedCt |-> 1,
           next |-> 0, goodCt |-> 0, q_ct |-> 0, maybeDone |-> FALSE,
           agains |-> 0, reqs |-> {}, msgs |-> << >>, err |-> "", errCode |-> 0]

isTaskDeleted(t) == tasks[t].kind = "none"

FreeSlots == {t \in TaskIds : tasks[t].kind = "none"}

\* The k lowest free slots, in ascending order.
RECURSIVE LowestFree(_, _)
LowestFree(free, k) ==
    IF k = 0 \/ free = {} THEN << >>
    ELSE LET m == CHOOSE x \in free : \A y \in free : x <= y
         IN << m >> \o LowestFree(free \ {m}, k - 1)


\* ------------------------------------------------- task-side primitives
Msg(k, b) == [k |-> k, b |-> b]

\* emit success() / emit errored(): queued to the Controller's handlers.
EmitSuccess(T) == [T EXCEPT !.msgs = Append(@, Msg("success", NoHdr))]

EmitErrored(T, what, code) ==
    [T EXCEPT !.msgs = Append(@, Msg("errored", NoHdr)), !.err = what, !.errCode = code]

\* nToDL rounding down instead of up.
nToDLFloor(from, to, stride) ==
    ((to - from) + 1) \div Max(stride, 1)

\* DownloadBlocksTask::nToDL.  The operands are unsigned; the constructor's
\* FatalAssert(to >= from) keeps the subtraction from wrapping.
nToDL(from, to, stride) ==
    (((to - from) + 1) + stride - 1) \div Max(stride, 1)

\* DownloadBlocksTask::process without the step to the next height.
DLProcessNoAdvance(T) ==
    IF T.next > T.to
    THEN IF T.maybeDone
         THEN IF T.goodCt >= T.expectedCt
              THEN EmitSuccess(T)
              ELSE EmitErrored(T, "missing headers", T.expectedCt - T.goodCt)
         ELSE T
    ELSE [T EXCEPT !.reqs = @ \cup {T.next}]

\* DownloadBlocksTask::process, with the request do_get submits: reqs holds
\* the heights whose getblockhash / getblock exchange is under way.
DLProcess(T) ==
    IF T.next > T.to
    THEN IF T.maybeDone
         THEN IF T.goodCt >= T.expectedCt
              THEN EmitSuccess(T)
              ELSE EmitErrored(T, "missing headers", T.expectedCt - T.goodCt)
         ELSE T
    ELSE [T EXCEPT !.reqs = @ \cup {T.next}, !.next = @ + T.stride]

\* GetChainInfoTask::process: submit getblockchaininfo.
ProbeProcess(T) == [T EXCEPT !.reqs = {0}]

\* newTask<GetChainInfoTask>(true, this), with the success handler's capture
\* of beSilentIfUpToDate, the task's start and its first process().
NewProbe(silent, gen) ==
    ProbeProcess([NoTask EXCEPT !.kind = "probe", !.gen = gen, !.running = TRUE,
                                !.silent = silent])

\* DownloadBlocksTask's constructor, the task's start and its first process().
NewDLTask(from, to, stride, gen) ==
    DLProcess([NoTask EXCEPT !.kind = "dl", !.gen = gen, !.running = TRUE,
                             !.from = from, !.to = to, !.stride = stride,
                             !.expectedCt = nToDL(from, to, stride),
                             !.next = from])

\* The re-queue loop of do_get without its test of max_q.
RECURSIVE RequeueNoCap(_)
RequeueNoCap(T) ==
    IF T.goodCt + T.q_ct < T.expectedCt
    THEN RequeueNoCap([T EXCEPT !.agains = @ + 1, !.q_ct = @ + 1])
    ELSE T

\* The re-queue loop of do_get: one AGAIN() per increment of q_ct.
RECURSIVE Requeue(_)
Requeue(T) ==
    IF T.goodCt + T.q_ct < T.expectedCt /\ T.q_ct < max_q
    THEN Requeue([T EXCEPT !.agains = @ + 1, !.q_ct = @ + 1])
    ELSE T

\* do_get's getblock handler taking the task for complete one block early.
\* do_get's getblock handler signalling success before it hands the last
\* block to the Controller.
DeliverSuccessFirst(T, b) ==
    LET T1 == [T EXCEPT !.goodCt = @ + 1, !.q_ct = Max(@ - 1, 0)]
        put == Msg("put", b)
    IN IF T1.goodCt >= T1.expectedCt
       THEN [T1 EXCEPT !.maybeDone = TRUE,
                       !.msgs = Append(Append(@, Msg("success", NoHdr)), put)]
       ELSE Requeue([T1 EXCEPT !.msgs = Append(@, put)])

DeliverDoneEarly(T, b) ==
    LET T1 == [T EXCEPT !.goodCt = @ + 1, !.q_ct = Max(@ - 1, 0),
                        !.msgs = Append(@, Msg("put", b))]
    IN IF T1.goodCt + 1 >= T1.expectedCt
       THEN [T1 EXCEPT !.maybeDone = TRUE, !.agains = @ + 1]
       ELSE Requeue(T1)

\* do_get's getblock handler on a header of the right size and hash: count
\* the block, hand it to the Controller, then finish or queue more requests.
Deliver(T, b) ==
    LET T1 == [T EXCEPT !.goodCt = @ + 1, !.q_ct = Max(@ - 1, 0),
                        !.msgs = Append(@, Msg("put", b))]
    IN IF T1.goodCt >= T1.expectedCt
       THEN [T1 EXCEPT !.maybeDone = TRUE, !.agains = @ + 1]
       ELSE Requeue(T1)

\* ThreadObjectMixin::stop() as the success/errored hooks of on_started call
\* it: the task's thread ends, what it had pending is dropped, and `finished`
\* is posted once, behind everything the task posted before.
StopTask(T) ==
    IF T.running
    THEN [NoTask EXCEPT !.kind = T.kind, !.gen = T.gen, !.silent = T.silent,
                        !.msgs = Append(T.msgs, Msg("finished", NoHdr))]
    ELSE T

PopMsg(T) == [T EXCEPT !.msgs = Tail(@)]

HeadIs(t, k) == tasks[t].msgs # << >> /\ Head(tasks[t].msgs).k = k

\* --------------------------------------------------------- task actions
\* A queued AGAIN() of a download task: process() once more.
TaskAgain(t) ==
    /\ ~fatal
    /\ tasks[t].running /\ tasks[t].agains > 0
    /\ tasks' = [tasks EXCEPT ![t] = DLProcess([@ EXCEPT !.agains = @ - 1])]
    /\ UNCHANGED << ctlVars, storageVars, bitcoind, rpcIds >>

\* getblockchaininfo answered and parsed: info is filled in, success emitted.
ProbeReplyOk(t) ==
    /\ ~fatal /\ bitcoind.connected
    /\ tasks[t].kind = "probe" /\ tasks[t].running /\ tasks[t].reqs # {}
    /\ tasks' = [tasks EXCEPT ![t] =
                   EmitSuccess([@ EXCEPT !.reqs = {},
                                  !.info = [blocks |-> bitcoind.tip,
                                            chain |-> bitcoind.chain,
                                            ibd |-> bitcoind.ibd]])]
    /\ UNCHANGED << ctlVars, storageVars, bitcoind, rpcIds >>

\* BTC::HashRev of a header: one number per header.
HashRev(b) == 3 * b.ht + b.br

\* rawblock.left(HEADER_SIZE): the length of the header do_get takes.
HeaderLen(rawLen) == Min(rawLen, HEADER_SIZE)

\* The handlers of do_get handing a block over without comparing hashes.
DoGetReplyNoHashTest(T, r) ==
    LET T1 == [T EXCEPT !.reqs = @ \ {r.h}, !.rep = r]
    IN IF r.hashLen = HASH_WIDTH
       THEN IF HeaderLen(r.rawLen) = HEADER_SIZE
            THEN Deliver(T1, r.hdr)
            ELSE EmitErrored(T1, "bad size", r.h)
       ELSE EmitErrored(T1, "invalid hash", r.h)

\* The result handlers of do_get for height r.h, on the replies r.
DoGetReply(T, r) ==
    LET T1 == [T EXCEPT !.reqs = @ \ {r.h}, !.rep = r]
        sizeOk == HeaderLen(r.rawLen) = HEADER_SIZE
    IN IF r.hashLen = HASH_WIDTH
       THEN IF sizeOk /\ HashRev(r.hdr) = r.hash
            THEN Deliver(T1, r.hdr)
            ELSE IF ~sizeOk
                 THEN EmitErrored(T1, "bad size", r.h)
                 ELSE EmitErrored(T1, "hash mismatch", r.h)
       ELSE EmitErrored(T1, "invalid hash", r.h)

\* What a sound bitcoind answers for height h: the hash of its block at h,
\* and the whole block, which is longer than its header.
GoodReply(h) ==
    [h |-> h, hashLen |-> HASH_WIDTH, hash |-> HashRev(Blk(h)),
     rawLen |-> HEADER_SIZE + 1, hdr |-> Blk(h)]

\* Answers a faulty bitcoind or a damaged transfer can give for height h: a
\* hash of the wrong length; a block cut short of a header; a block with
\* another header than the hash names, whole, bare or cut short.
BadReplies(h) ==
    {[GoodReply(h) EXCEPT !.hashLen = HASH_WIDTH - 1, !.rawLen = 0, !.hdr = NoHdr],
     [GoodReply(h) EXCEPT !.rawLen = HEADER_SIZE - 1]}
    \cup {[GoodReply(h) EXCEPT !.rawLen = n, !.hdr = [ht |-> h, br |-> 2]] :
             n \in {HEADER_SIZE - 1, HEADER_SIZE, HEADER_SIZE + 1}}

\* getblockhash h answered with a hash of the right width and getblock with
\* the block of that hash: the handlers of do_get on a valid header.
BlockReplyOk(t, h) ==
    /\ ~fatal /\ bitcoind.connected /\ h <= bitcoind.tip
    /\ tasks[t].kind = "dl" /\ tasks[t].running /\ h \in tasks[t].reqs
    /\ tasks' = [tasks EXCEPT ![t] = DoGetReply(@, GoodReply(h))]
    /\ UNCHANGED << ctlVars, storageVars, bitcoind, rpcIds >>

\* The requests of do_get for height h answered badly.
BlockReplyBad(t, h, r) ==
    /\ ~fatal /\ bitcoind.connected /\ bitcoind.bad < MaxBad
    /\ tasks[t].kind = "dl" /\ tasks[t].running /\ h \in tasks[t].reqs
    /\ r \in BadReplies(h)
    /\ tasks' = [tasks EXCEPT ![t] = DoGetReply(@, r)]
    /\ bitcoind' = [bitcoind EXCEPT !.bad = @ + 1]
    /\ UNCHANGED << ctlVars, storageVars, rpcIds >>

\* The RPC layer's on_error / on_failure, or a getblockchaininfo result the
\* probe cannot parse: errorCode and errorMessage are set and errored is
\* emitted.
BadReplyKinds(kind) ==
    IF kind = "probe" THEN {"Failed to parse", "rpc"}
    ELSE {"rpc"}

ReplyBad(t, h, what) ==
    /\ ~fatal /\ bitcoind.bad < MaxBad
    /\ tasks[t].running /\ h \in tasks[t].reqs /\ what \in BadReplyKinds(tasks[t].kind)
    /\ tasks' = [tasks EXCEPT ![t] = EmitErrored([@ EXCEPT !.reqs = @ \ {h}], what, h)]
    /\ bitcoind' = [bitcoind EXCEPT !.bad = @ + 1]
    /\ UNCHANGED << ctlVars, storageVars, rpcIds >>

\* ---------------------------------------------------- storage, verifier
\* The shared header verifier's call operator: a header is accepted when
\* the verifier holds no header yet or the header's prev-hash names the
\* last header processed.  A rejected call may leave its state clobbered.
Verify(v, hdr) ==
    IF v = NoHdr \/ Parent(hdr) = v
    THEN [ok |-> TRUE, verif |-> hdr]
    ELSE [ok |-> FALSE, verif |-> [hdr EXCEPT !.br = 2]]

\* !(nLeft % 10000) && nLeft, for the unsigned nLeft = endHeight -
\* (ppBlkHtNext - 1): d is the difference as an integer, and a negative d
\* wraps to 2^32 + d, where 2^32 % 10000 = 7296.
SaveDue(d) ==
    IF d >= 0 THEN d % 10000 = 0 /\ d # 0 ELSE (7296 + d) % 10000 = 0

\* process_VerifyAndAddBlock without the undo of the verifier on rejection.
VerifyAndAddBlockNoUndo(st, ppb) ==
    LET r == Verify(st.verif, ppb)
    IN IF ~r.ok
       THEN [st EXCEPT !.sm.state = "Failure", !.sm.failed = TRUE, !.verif = r.verif,
                       !.agains = @ + 1, !.ok = FALSE]
       ELSE LET nLeft == st.sm.endHeight - (st.sm.ppBlkHtNext - 1)
            IN [st EXCEPT !.verif = r.verif,
                          !.headers = Append(@, r.verif),
                          !.saves = IF SaveDue(nLeft) THEN Count(@) ELSE @,
                          !.ok = TRUE]

\* Controller::process_VerifyAndAddBlock on the state st = [sm, headers,
\* verif, saves, agains]; `ok` is its return value.
VerifyAndAddBlock(st, ppb) ==
    LET verifUndo == st.verif
        r == Verify(st.verif, ppb)
    IN IF ~r.ok
       THEN [st EXCEPT !.sm.state = "Failure", !.sm.failed = TRUE, !.verif = verifUndo,
                       !.agains = @ + 1, !.ok = FALSE]
       ELSE LET rawHeader == r.verif
                nLeft == st.sm.endHeight - (st.sm.ppBlkHtNext - 1)
            IN [st EXCEPT !.verif = r.verif,
                          !.headers = Append(@, rawHeader),
                          !.saves = IF SaveDue(nLeft) THEN Count(@) ELSE @,
                          !.ok = TRUE]

\* ppBlocks.begin(): the entry with the least height.
PPBegin(pp) == CHOOSE b \in pp : \A c \in pp : b.ht <= c.ht

\* The loop of process_DownloadingBlocks.
RECURSIVE DrainLoop(_)
DrainLoop(st) ==
    IF st.sm.ppBlocks = {} \/ PPBegin(st.sm.ppBlocks).ht # st.sm.ppBlkHtNext
    THEN st
    ELSE LET ppb == PPBegin(st.sm.ppBlocks)
             st1 == [st EXCEPT !.sm.ppBlkHtNext = @ + 1,
                               !.sm.ppBlocks = @ \ {ppb}]
             st2 == VerifyAndAddBlock(st1, ppb)
         IN IF st2.ok THEN DrainLoop(st2) ELSE st2

\* Whether the download is complete, as process_DownloadingBlocks tests it.
DLFinished(s) == s.ppBlkHtNext >= s.endHeight

\* Controller::process_DownloadingBlocks.
DownloadingBlocks(st) ==
    LET st1 == DrainLoop(st)
    IN IF ~st1.ok THEN st1
       ELSE IF DLFinished(st1.sm)
            THEN [st1 EXCEPT !.sm.state = "FinishedDL", !.agains = @ + 1]
            ELSE st1

\* ------------------------------------------------- Controller: process()
\* emit <signal>().  upToDate also posts one call of the hook startup()
\* connected to it (Qt::QueuedConnection) while that hook is connected; the
\* count of posted calls stops at MaxCount.
Emit(sig) ==
    /\ emitted' = [emitted EXCEPT ![sig] = Count(@)]
    /\ srv' = IF sig = "upToDate" /\ srv.conn
              THEN [srv EXCEPT !.queued = Count(@)]
              ELSE srv

\* The slots newTask fills for n new tasks.
NewSlots(n) == LowestFree(FreeSlots, n)

\* The loop of State::GetBlocks starting every task at the base height.
GetBlocksTasksSameFrom(s, gen) ==
    LET base == Len(headers)
        num == (s.ht + 1) - base
        nTasks == Min(num, DL_CONCURRENCY)
        slots == NewSlots(nTasks)
    IN [t \in TaskIds |->
          IF \E i \in 1 .. nTasks : slots[i] = t
          THEN NewDLTask(base, s.ht, nTasks, gen)
          ELSE tasks[t]]

\* State::GetBlocks of Controller::process.
GetBlocksTasks(s, gen) ==
    LET base == Len(headers)
        num == (s.ht + 1) - base
        nTasks == Min(num, DL_CONCURRENCY)
        slots == NewSlots(nTasks)
    IN [t \in TaskIds |->
          IF \E i \in 1 .. nTasks : slots[i] = t
          THEN LET i == CHOOSE i \in 1 .. nTasks : slots[i] = t
               IN NewDLTask(base + (i - 1), s.ht, nTasks, gen)
          ELSE tasks[t]]

\* GetBlocksSM with the reassembly cursor started one past the base.
GetBlocksSMSkipFirst(s) ==
    LET base == Len(headers)
        num == (s.ht + 1) - base
    IN [s EXCEPT !.ppBlkHtNext = base + 1, !.startheight = base,
                 !.endHeight = (base + num) - 1,
                 !.state = "DownloadingBlocks", !.ranGetBlocks = TRUE]

GetBlocksSM(s) ==
    LET base == Len(headers)
        num == (s.ht + 1) - base
    IN [s EXCEPT !.ppBlkHtNext = base, !.startheight = base,
                 !.endHeight = (base + num) - 1,
                 !.state = "DownloadingBlocks", !.ranGetBlocks = TRUE]

\* The FatalAsserts of State::GetBlocks (ht >= 0, num > 0) and of the
\* tasks' constructor (to >= from, which a wrapped num runs into).
GetBlocksFatal(s) ==
    s.ht < 0 \/ (s.ht + 1) - Len(headers) <= 0

\* Controller::process(beSilentIfUpToDate); pend is the number of queued
\* process() calls that remain once this one has been taken.
Process(silent, pend) ==
    LET s0 == IF sm.state = "None" THEN NewSM ELSE sm
        gen == IF sm.state = "None" THEN Min(smGen + 1, MaxGen) ELSE smGen
    IN
    /\ ~fatal
    /\ smGen' = gen
    /\ UNCHANGED << waitTimer, hooks, chain, bitcoind, rpcIds >>
    /\ CASE s0.state = "Begin" ->
              /\ FreeSlots # {}
              /\ tasks' = [tasks EXCEPT ![NewSlots(1)[1]] =
                             NewProbe(silent, gen)]
              /\ sm' = s0 /\ pollTimer' = 0 /\ procPending' = pend
              /\ UNCHANGED << headers, verif, saves, emitted, srv, fatal >>
         [] s0.state = "GetBlocks" ->
              IF GetBlocksFatal(s0)
              THEN /\ fatal' = TRUE
                   /\ sm' = s0 /\ pollTimer' = 0 /\ procPending' = pend
                   /\ UNCHANGED << tasks, headers, verif, saves, emitted, srv >>
              ELSE /\ Cardinality(FreeSlots) >= Min(s0.ht + 1 - Len(headers), DL_CONCURRENCY)
                   /\ tasks' = GetBlocksTasks(s0, gen)
                   /\ sm' = GetBlocksSM(s0)
                   /\ pollTimer' = 0 /\ procPending' = pend
                   /\ UNCHANGED << headers, verif, saves, emitted, srv, fatal >>
         [] s0.state = "DownloadingBlocks" ->
              LET r == DownloadingBlocks([sm |-> s0, headers |-> headers,
                                          verif |-> verif, saves |-> saves,
                                          agains |-> 0, ok |-> TRUE])
              IN /\ sm' = r.sm /\ headers' = r.headers /\ verif' = r.verif
                 /\ saves' = r.saves /\ procPending' = pend + r.agains
                 /\ pollTimer' = 0
                 /\ UNCHANGED << tasks, emitted, srv, fatal >>
         [] s0.state = "FinishedDL" ->
              /\ sm' = NoSM /\ procPending' = pend + 1 /\ saves' = Count(saves)
              /\ pollTimer' = 0
              /\ UNCHANGED << tasks, headers, verif, emitted, srv, fatal >>
         [] s0.state = "Failure" ->
              /\ sm' = NoSM /\ Emit("synchFailure") /\ pollTimer' = polltime_ms
              /\ procPending' = pend
              /\ UNCHANGED << tasks, headers, verif, saves, fatal >>
         [] s0.state = "End" ->
              /\ sm' = NoSM /\ pollTimer' = polltime_ms /\ procPending' = pend
              /\ UNCHANGED << tasks, headers, verif, saves, emitted, srv, fatal >>
         [] s0.state = "IBD" ->
              /\ sm' = NoSM /\ Emit("synchFailure") /\ pollTimer' = ibdPolltime_ms
              /\ procPending' = pend
              /\ UNCHANGED << tasks, headers, verif, saves, fatal >>

\* A queued process() call (AGAIN) runs.
ProcessAgain ==
    /\ procPending > 0
    /\ Process(FALSE, procPending - 1)
    /\ UNCHANGED callProcessTimer

\* The "callProcess" timer armed by the readiness gate fires.
CallProcessFire ==
    /\ callProcessTimer
    /\ Process(FALSE, procPending)
    /\ callProcessTimer' = FALSE

\* The poll timer fires (single shot): if (!sm) process(true).
PollFire ==
    /\ ~fatal
    /\ pollTimer > 0
    /\ IF sm.state = "None"
       THEN Process(TRUE, procPending) /\ UNCHANGED callProcessTimer
       ELSE pollTimer' = 0
            /\ UNCHANGED << sm, smGen, tasks, procPending, callProcessTimer, waitTimer,
                            hooks, storageVars, emitted, srv, fatal, bitcoind, rpcIds >>

\* --------------------------------------- Controller: handlers of task events
\* Controller::genericTaskErrored.
GenericTaskErrored ==
    IF sm.state # "None" /\ sm.state # "Failure"
    THEN sm' = [sm EXCEPT !.state = "Failure", !.failed = TRUE] /\ procPending' = procPending + 1
    ELSE UNCHANGED << sm, procPending >>

\* The message putBlock posted, without the test for DownloadingBlocks.
CtlPutBlockNoStateTest(t) ==
    /\ ~fatal
    /\ HeadIs(t, "put")
    /\ tasks' = [tasks EXCEPT ![t] = PopMsg(@)]
    /\ LET p == Head(tasks[t].msgs).b
       IN IF sm.state = "None" \/ isTaskDeleted(t) \/ sm.state = "Failure"
          THEN UNCHANGED << sm, procPending >>
          ELSE /\ sm' = [sm EXCEPT !.ppBlocks =
                            {b \in @ : b.ht # p.ht} \cup {p}]
               /\ procPending' = procPending + 1
    /\ UNCHANGED << smGen, timerVars, storageVars, emitted, srv, fatal, bitcoind, rpcIds >>

\* The message Controller::putBlock posted runs.
CtlPutBlock(t) ==
    /\ ~fatal
    /\ HeadIs(t, "put")
    /\ tasks' = [tasks EXCEPT ![t] = PopMsg(@)]
    /\ LET p == Head(tasks[t].msgs).b
       IN IF sm.state = "None" \/ isTaskDeleted(t) \/ sm.state = "Failure"
          THEN UNCHANGED << sm, procPending >>
          ELSE IF sm.state # "DownloadingBlocks"
               THEN UNCHANGED << sm, procPending >>
               ELSE /\ sm' = [sm EXCEPT !.ppBlocks =
                                 {b \in @ : b.ht # p.ht} \cup {p}]
                    /\ procPending' = procPending + 1
    /\ UNCHANGED << smGen, timerVars, storageVars, emitted, srv, fatal, bitcoind, rpcIds >>

\* A download task's success: the lambda of add_DLHeaderTask (statistics
\* only), then the stop() hook of on_started.
CtlDLSuccess(t) ==
    /\ ~fatal
    /\ tasks[t].kind = "dl" /\ HeadIs(t, "success")
    /\ tasks' = [tasks EXCEPT ![t] = StopTask(PopMsg(@))]
    /\ UNCHANGED << ctlVars, storageVars, bitcoind, rpcIds >>

\* A download task's errored: the lambda of add_DLHeaderTask, then stop().
CtlDLErrored(t) ==
    /\ ~fatal
    /\ tasks[t].kind = "dl" /\ HeadIs(t, "errored")
    /\ tasks' = [tasks EXCEPT ![t] = StopTask(PopMsg(@))]
    /\ IF sm.state = "None" \/ isTaskDeleted(t)
       THEN UNCHANGED << sm, procPending >>
       ELSE IF sm.state = "Failure"
            THEN UNCHANGED << sm, procPending >>
            ELSE GenericTaskErrored
    /\ UNCHANGED << smGen, timerVars, storageVars, emitted, srv, fatal, bitcoind, rpcIds >>

\* The probe's errored: genericTaskErrored (connected by newTask), then stop().
CtlProbeErrored(t) ==
    /\ ~fatal
    /\ tasks[t].kind = "probe" /\ HeadIs(t, "errored")
    /\ tasks' = [tasks EXCEPT ![t] = StopTask(PopMsg(@))]
    /\ GenericTaskErrored
    /\ UNCHANGED << smGen, timerVars, storageVars, emitted, srv, fatal, bitcoind, rpcIds >>

\* The probe's success handler announcing upToDate whatever the flag says.
UpToDateEmitsAlways(silent) == TRUE

\* Whether the probe's success handler announces upToDate at the tip:
\* if (!beSilentIfUpToDate) emit upToDate().
UpToDateEmits(silent) == ~silent

\* The chain reconcile writing the reported name over any stored one.
SetsChainAlways(dbchain, reported) == reported # ""

\* Whether the probe's success handler stores the reported chain name:
\* dbchain.isEmpty() && !task->info.chain.isEmpty().
SetsChain(dbchain, reported) == dbchain = "" /\ reported # ""

\* The height comparison without its fatal branch.
BeginNextStateNoFatal(old, ht) ==
    IF old = ht THEN "End" ELSE "GetBlocks"

\* What the probe's success handler decides once the chain names agree.
BeginNextState(old, ht) ==
    IF old = ht THEN "End" ELSE IF old > ht THEN "Fatal" ELSE "GetBlocks"

\* The probe's success: the handler process() connected in State::Begin,
\* then stop().
CtlProbeSuccess(t) ==
    /\ ~fatal
    /\ tasks[t].kind = "probe" /\ HeadIs(t, "success")
    /\ LET info == tasks[t].info
           silent == tasks[t].silent
           stopped == [tasks EXCEPT ![t] = StopTask(PopMsg(@))]
           dbchain == chain
           setIt == SetsChain(dbchain, info.chain)
           old == Len(headers) - 1
           nxt == BeginNextState(old, info.blocks)
       IN IF sm.state = "None" \/ isTaskDeleted(t)
          THEN /\ tasks' = stopped
               /\ UNCHANGED << sm, procPending, chain, emitted, srv, fatal >>
          ELSE IF info.ibd
          THEN /\ sm' = [sm EXCEPT !.state = "IBD"]
               /\ procPending' = procPending + 1
               /\ tasks' = stopped
               /\ UNCHANGED << chain, emitted, srv, fatal >>
          ELSE IF ~setIt /\ dbchain # info.chain
          THEN /\ fatal' = TRUE
               /\ UNCHANGED << sm, procPending, chain, emitted, srv, tasks >>
          ELSE IF nxt = "Fatal"
          THEN /\ fatal' = TRUE
               /\ chain' = (IF setIt THEN info.chain ELSE chain)
               /\ sm' = [sm EXCEPT !.ht = info.blocks]
               /\ UNCHANGED << procPending, emitted, srv, tasks >>
          ELSE /\ chain' = (IF setIt THEN info.chain ELSE chain)
               /\ sm' = [sm EXCEPT !.ht = info.blocks, !.state = nxt]
               /\ IF nxt = "GetBlocks" THEN Emit("synchronizing")
                  ELSE IF UpToDateEmits(silent) THEN Emit("upToDate")
                  ELSE UNCHANGED << emitted, srv >>
               /\ procPending' = procPending + 1
               /\ tasks' = stopped
               /\ UNCHANGED fatal
    /\ UNCHANGED << smGen, timerVars, headers, verif, saves, bitcoind, rpcIds >>

\* The task's `finished`: Controller::rmTask.
CtlTaskFinished(t) ==
    /\ ~fatal
    /\ HeadIs(t, "finished")
    /\ tasks' = [tasks EXCEPT ![t] = NoTask]
    /\ UNCHANGED << ctlVars, storageVars, bitcoind, rpcIds >>

\* ------------------------------------------------ the server manager
\* The hook creating a SrvMgr whether or not one exists.
SrvMgrAbsentAlways(s) == TRUE

\* if (!srvmgr), in the hook startup() connected to upToDate.
SrvMgrAbsent(s) == s.started = 0

\* A posted call of the upToDate hook runs: disconnect itself, and where no
\* SrvMgr exists create one and start it; ok tells whether its servers
\* could bind and listen (an Exception there is Fatal).  A call posted
\* before the disconnect still runs after it.
UpToDateHook(ok) ==
    /\ ~fatal
    /\ srv.queued > 0
    /\ IF SrvMgrAbsent(srv)
       THEN /\ srv' = [conn |-> FALSE, queued |-> srv.queued - 1,
                       started |-> srv.started + 1]
            /\ fatal' = ~ok
       ELSE /\ srv' = [srv EXCEPT !.conn = FALSE, !.queued = @ - 1]
            /\ UNCHANGED fatal
    /\ UNCHANGED << sm, smGen, tasks, procPending, timerVars, storageVars,
                    emitted, bitcoind, rpcIds >>

\* ------------------------------------------------ the readiness gate
\* waitForBitcoinD leaving the poll timer running.
AllConnectionsLostKeepsPoll ==
    /\ ~fatal
    /\ hooks < MaxHooks /\ bitcoind.lost < MaxLost
    /\ bitcoind' = [bitcoind EXCEPT !.connected = FALSE, !.lost = @ + 1]
    /\ callProcessTimer' = FALSE /\ waitTimer' = TRUE
    /\ hooks' = hooks + 1
    /\ UNCHANGED << sm, smGen, tasks, procPending, pollTimer, storageVars,
                    emitted, srv, fatal, rpcIds >>

\* BitcoinDMgr::allConnectionsLost: waitForBitcoinD re-arms the gate.
AllConnectionsLost ==
    /\ ~fatal
    /\ hooks < MaxHooks /\ bitcoind.lost < MaxLost
    /\ bitcoind' = [bitcoind EXCEPT !.connected = FALSE, !.lost = @ + 1]
    /\ pollTimer' = 0 /\ callProcessTimer' = FALSE /\ waitTimer' = TRUE
    /\ hooks' = hooks + 1
    /\ UNCHANGED << sm, smGen, tasks, procPending, storageVars, emitted, srv,
                    fatal, rpcIds >>

\* BitcoinDMgr::gotFirstGoodConnection: every connected one-shot hook runs.
GotFirstGoodConnection ==
    /\ ~fatal
    /\ ~bitcoind.connected
    /\ bitcoind' = [bitcoind EXCEPT !.connected = TRUE, !.ever = TRUE]
    /\ IF hooks > 0
       THEN waitTimer' = FALSE /\ callProcessTimer' = TRUE /\ hooks' = 0
       ELSE UNCHANGED << waitTimer, callProcessTimer, hooks >>
    /\ UNCHANGED << sm, smGen, tasks, procPending, pollTimer, storageVars,
                    emitted, srv, fatal, rpcIds >>

\* ------------------------------------------------------------- bitcoind
\* A new block is mined on the current chain.
NewBlock ==
    /\ ~fatal
    /\ bitcoind.tip < MaxHeight /\ bitcoind.mined < MaxMined
    /\ bitcoind' = [bitcoind EXCEPT !.tip = @ + 1, !.mined = @ + 1]
    /\ UNCHANGED << ctlVars, tasks, storageVars, rpcIds >>

\* bitcoind switches to another branch of the same length that forks off
\* at height f >= 1.
Reorg(f) ==
    /\ ~fatal
    /\ bitcoind.fork = 0 /\ f >= 1 /\ f <= bitcoind.tip
    /\ bitcoind' = [bitcoind EXCEPT !.fork = f]
    /\ UNCHANGED << ctlVars, tasks, storageVars, rpcIds >>

\* bitcoind leaves initial block download.
IBDDone ==
    /\ ~fatal
    /\ bitcoind.ibd
    /\ bitcoind' = [bitcoind EXCEPT !.ibd = FALSE]
    /\ UNCHANGED << ctlVars, tasks, storageVars, rpcIds >>

\* ------------------------------------------------------------- RPCMsgId
\* class RPCMsgId: the type tag, the integer and the string it holds.
RpcNull == [typ |-> "Null", idata |-> 0, sdata |-> ""]

Texts == {"", "7", "abc"}
IdInts == {-1, 0, 7}

\* RPCMsgId(int64_t intVal)
RpcFromInt(intVal) == [typ |-> "Integer", idata |-> intVal, sdata |-> ""]

\* RPCMsgId(const QString &str)
RpcFromStrRef(str) == [typ |-> "Integer", idata |-> 0, sdata |-> str]

\* RPCMsgId(QString &&str)
RpcFromStrMove(str) == [typ |-> "String", idata |-> 0, sdata |-> str]

\* operator=(const QString &s) and operator=(QString &&s)
RpcAssignStr(o, s) == [o EXCEPT !.typ = "String", !.sdata = s, !.idata = 0]

\* operator=(int64_t i)
RpcAssignInt(o, i) == [o EXCEPT !.typ = "Integer", !.sdata = "", !.idata = i]

\* Object k becomes v through operation op.
RpcSet(k, v, op) ==
    /\ rpcIds' = [rpcIds EXCEPT !.obj[k] = v, !.op = op, !.on = k]
    /\ UNCHANGED << ctlVars, tasks, storageVars, bitcoind >>

RpcConstruct(k) ==
    \/ RpcSet(k, RpcNull, "default")
    \/ \E i \in IdInts : RpcSet(k, RpcFromInt(i), "int")
    \/ \E s \in Texts : RpcSet(k, RpcFromStrRef(s), "strRef")
    \/ \E s \in Texts : RpcSet(k, RpcFromStrMove(s), "strMove")

RpcAssign(k) ==
    \/ RpcSet(k, RpcNull, "clear")
    \/ \E i \in IdInts : RpcSet(k, RpcAssignInt(rpcIds.obj[k], i), "assignInt")
    \/ \E s \in Texts : RpcSet(k, RpcAssignStr(rpcIds.obj[k], s), "assignStrRef")
    \/ \E s \in Texts : RpcSet(k, RpcAssignStr(rpcIds.obj[k], s), "assignStrMove")
    \/ RpcSet(k, rpcIds.obj[3 - k], "copy")

InitRpcIds ==
    rpcIds = [obj |-> << RpcNull, RpcNull >>, op |-> "default", on |-> 1]

\* ------------------------------------------------------- specification
\* Storage as startup() finds it: a fresh database, or one synched to some
\* height of the first branch on chain "main".
InitStorage(n) ==
    /\ headers = [i \in 1 .. n |-> [ht |-> i - 1, br |-> 0]]
    /\ verif = (IF n = 0 THEN NoHdr ELSE [ht |-> n - 1, br |-> 0])
    /\ chain = (IF n = 0 THEN "" ELSE "main")
    /\ saves = 0

\* Controller::startup: no state machine, no task, the gate armed.
InitController ==
    /\ sm = NoSM /\ smGen = 0
    /\ tasks = [t \in TaskIds |-> NoTask]
    /\ procPending = 0
    /\ pollTimer = 0 /\ callProcessTimer = FALSE /\ waitTimer = TRUE /\ hooks = 1
    /\ emitted = [synchronizing |-> 0, upToDate |-> 0, synchFailure |-> 0]
    /\ srv = [conn |-> TRUE, queued |-> 0, started |-> 0]
    /\ fatal = FALSE

\* bitcoind as the run finds it: not connected yet, no reorg yet.
InitBitcoind(tip, c, ibd) ==
    bitcoind = [connected |-> FALSE, ever |-> FALSE, tip |-> tip, chain |-> c,
                ibd |-> ibd, fork |-> 0, mined |-> 0, lost |-> 0, bad |-> 0]

\* A database synched to height 1 against a daemon at any height, on the
\* same chain or another; or a fresh database against a daemon at height 0
\* or 1 (the chain names differ only by renaming there).
Init ==
    /\ InitController /\ InitRpcIds
    /\ \E n \in {0, 2}, tip \in Heights, c \in Chains, ibd \in BOOLEAN :
          /\ InitStorage(n)
          /\ n = 0 => c = "main" /\ tip <= 1
          /\ InitBitcoind(tip, c, ibd)

\* bitcoind answers every request well.
TaskOk ==
    \E t \in TaskIds :
       \/ TaskAgain(t)
       \/ ProbeReplyOk(t)
       \/ \E h \in Heights : BlockReplyOk(t, h)

\* bitcoind answers a request badly, and the Controller hears of it.
TaskBad ==
    \/ \E t \in TaskIds, h \in Heights,
          what \in {"Failed to parse", "rpc"} : ReplyBad(t, h, what)
    \/ \E t \in TaskIds, h \in Heights :
          \E r \in BadReplies(h) : BlockReplyBad(t, h, r)
    \/ \E t \in TaskIds : CtlDLErrored(t) \/ CtlProbeErrored(t)

\* The Controller's handlers of what tasks post.
CtlTaskNext ==
    \E t \in TaskIds :
       \/ CtlPutBlock(t)
       \/ CtlDLSuccess(t)
       \/ CtlProbeSuccess(t)
       \/ CtlTaskFinished(t)

\* The run is cut off where state machine number MaxGen + 1 would be made.
GenLeft == sm.state = "None" => smGen < MaxGen

\* The Controller's thread: its event queue and its timers.
CtlNext ==
    \/ GenLeft /\ ProcessAgain
    \/ GenLeft /\ CallProcessFire
    \/ GenLeft /\ PollFire
    \/ CtlTaskNext
    \/ \E ok \in BOOLEAN : UpToDateHook(ok)

Core == TaskOk \/ CtlNext \/ GotFirstGoodConnection

\* A reliable bitcoind whose chain grows and that leaves initial block
\* download.
Next == Core \/ NewBlock \/ IBDDone

Spec == Init /\ [][Next]_vars

\* A bitcoind that answers some request badly.
NextErr == Core \/ TaskBad

SpecErr == Init /\ [][NextErr]_vars

\* A bitcoind that reorganises onto another branch.
NextReorg == Core \/ \E f \in 1 .. MaxHeight : Reorg(f)

SpecReorg == Init /\ [][NextReorg]_vars

\* A bitcoind whose connections drop and come back, and that leaves
\* initial block download.
NextConn == Core \/ AllConnectionsLost \/ IBDDone

SpecConn == Init /\ [][NextConn]_vars

\* Runs without end against a reliable bitcoind with a fixed tip: a database
\* synched to height 1, bitcoind on the same chain at height 1, 2 or 3, in
\* initial block download or not.  Every posted event is eventually
\* handled, every armed timer eventually fires, every request is answered.
InitLive ==
    /\ InitController /\ InitRpcIds
    /\ InitStorage(2)
    /\ \E tip \in 1 .. MaxHeight, ibd \in BOOLEAN : InitBitcoind(tip, "main", ibd)

NextLive ==
    \/ TaskOk
    \/ ProcessAgain \/ CallProcessFire \/ PollFire
    \/ CtlTaskNext
    \/ \E ok \in BOOLEAN : UpToDateHook(ok)
    \/ GotFirstGoodConnection
    \/ IBDDone

FairLive ==
    /\ WF_vars(ProcessAgain) /\ WF_vars(CallProcessFire) /\ WF_vars(PollFire)
    /\ WF_vars(GotFirstGoodConnection)
    /\ WF_vars(\E ok \in BOOLEAN : UpToDateHook(ok))
    /\ \A t \in TaskIds :
          /\ WF_vars(TaskAgain(t)) /\ WF_vars(ProbeReplyOk(t))
          /\ WF_vars(\E h \in Heights : BlockReplyOk(t, h))
          /\ WF_vars(CtlPutBlock(t)) /\ WF_vars(CtlDLSuccess(t))
          /\ WF_vars(CtlProbeSuccess(t)) /\ WF_vars(CtlTaskFinished(t))

SpecLive == InitLive /\ [][NextLive]_vars /\ FairLive

\* RPCMsgId objects built and assigned, the Controller as startup() left it.
InitRpc ==
    /\ InitController /\ InitRpcIds
    /\ InitStorage(0)
    /\ InitBitcoind(0, "main", FALSE)

NextRpc == \E k \in {1, 2} : RpcConstruct(k) \/ RpcAssign(k)

SpecRpc == InitRpc /\ [][NextRpc]_vars

\* A database that is fresh or holds the genesis header only, against a
\* reliable bitcoind with a fixed tip at height 0 or MaxHeight: at
\* MaxHeight the download tasks have more than one height each and their
\* requests are pipelined.
InitPipe ==
    /\ InitController /\ InitRpcIds
    /\ \E n \in {0, 1} : InitStorage(n)
    /\ \E tip \in {0, MaxHeight} : InitBitcoind(tip, "main", FALSE)

SpecPipe == InitPipe /\ [][Core]_vars

\* Retries: a database holding the genesis header only against a bitcoind
\* with a fixed tip at MaxHeight that answers some block request badly;
\* state machines follow one another (smGen stops counting at MaxGen)
\* while tasks of earlier ones are still running.
InitRetry ==
    /\ InitController /\ InitRpcIds
    /\ InitStorage(1)
    /\ InitBitcoind(MaxHeight, "main", FALSE)

\* At most MaxCount probes succeed in one run: no state machine is created after that.
RetryLeft == sm.state = "None" => emitted.synchronizing + emitted.upToDate < MaxCount

NextRetry ==
    \/ TaskOk
    \/ \E t \in TaskIds, h \in 1 .. MaxHeight : ReplyBad(t, h, "rpc")
    \/ \E t \in TaskIds : CtlDLErrored(t)
    \/ RetryLeft /\ ProcessAgain
    \/ RetryLeft /\ CallProcessFire
    \/ RetryLeft /\ PollFire
    \/ CtlTaskNext
    \/ GotFirstGoodConnection

SpecRetry == InitRetry /\ [][NextRetry]_vars

\* One download task on its thread, constructed with any arguments its
\* constructor accepts (from <= to, stride > 0) against a connected bitcoind
\* whose tip is at MaxTaskHeight. The Controller has discarded its state
\* machine and only takes the task's messages off its queue.
TaskHeights == 1 .. MaxTaskHeight

InitTask ==
    /\ InitRpcIds
    /\ InitStorage(1)
    /\ sm = NoSM /\ smGen = 1 /\ procPending = 0
    /\ pollTimer = polltime_ms /\ callProcessTimer = FALSE
    /\ waitTimer = FALSE /\ hooks = 0
    /\ emitted = [synchronizing |-> 1, upToDate |-> 0, synchFailure |-> 1]
    /\ srv = [conn |-> TRUE, queued |-> 0, started |-> 0]
    /\ fatal = FALSE
    /\ bitcoind = [connected |-> TRUE, ever |-> TRUE, tip |-> MaxTaskHeight,
                   chain |-> "main", ibd |-> FALSE, fork |-> 0, mined |-> 0,
                   lost |-> 0, bad |-> 0]
    /\ \E from \in TaskHeights, to \in TaskHeights, stride \in 1 .. MaxStride :
          /\ from <= to
          /\ tasks = [t \in TaskIds |->
                        IF t = 1 THEN NewDLTask(from, to, stride, 1) ELSE NoTask]

NextTask ==
    \/ TaskAgain(1)
    \/ \E h \in TaskHeights : BlockReplyOk(1, h)
    \/ \E h \in TaskHeights : ReplyBad(1, h, "rpc")
    \/ CtlPutBlock(1)
    \/ CtlDLSuccess(1)
    \/ CtlDLErrored(1)
    \/ CtlTaskFinished(1)

SpecTask == InitTask /\ [][NextTask]_vars

\* The same task when bitcoind answers every request with valid data. The
\* task's event loop runs every AGAIN() it has queued, and every request
\* under way is answered.
NextTaskOk ==
    \/ TaskAgain(1)
    \/ \E h \in TaskHeights : BlockReplyOk(1, h)
    \/ CtlPutBlock(1)
    \/ CtlDLSuccess(1)
    \/ CtlTaskFinished(1)

FairTask ==
    /\ WF_vars(TaskAgain(1))
    /\ WF_vars(\E h \in TaskHeights : BlockReplyOk(1, h))

SpecTaskLive == InitTask /\ [][NextTaskOk]_vars /\ FairTask

\* ---------------------------------------------------------------- claims
\* C1: every step leaves the stored headers a prefix of what they become,
\* and the header at index i (1-based) is the one for height i - 1: each
\* append is for the height equal to the header count before it, whatever
\* order replies and putBlock messages arrive in.
C1_AppendsAscending ==
    [][ /\ Len(headers') >= Len(headers)
        /\ \A i \in 1 .. Len(headers') :
              /\ i <= Len(headers) => headers'[i] = headers[i]
              /\ headers'[i].ht = i - 1 ]_vars

\* C1 witness: a download of two blocks has appended both, the storage tip
\* is the download's end height.
C1_Witness ==
    /\ sm.state = "FinishedDL"
    /\ sm.endHeight = sm.startheight + 1
    /\ Len(headers) = sm.endHeight + 1

\* The verifier's state matches the storage tip.
VerifierAtTip ==
    verif' = IF headers' = << >> THEN NoHdr ELSE headers'[Len(headers')]

\* C2: in every step, each header appended links to the header stored right
\* before it (the verifier accepted it against the prior tip) and the
\* verifier ends at the storage tip; and when the drain of a download stops
\* on a rejected header the state machine is in Failure with a re-entry
\* queued, the verifier is back at the storage tip, and the rejected header
\* (height ppBlkHtNext - 1) is not in storage.
C2_VerifyThenAppend ==
    [][ /\ \A i \in Len(headers) + 1 .. Len(headers') :
              i = 1 \/ Parent(headers'[i]) = headers'[i - 1]
        /\ VerifierAtTip
        /\ (sm.state = "DownloadingBlocks" /\ sm'.state = "Failure")
              => /\ Len(headers') = sm'.ppBlkHtNext - 1
                 /\ procPending' >= 1 ]_vars

\* C2 witness: a header of the other branch was rejected after the reorg:
\* Failure, the cursor one past the storage tip, the verifier at the tip.
C2_Witness ==
    /\ sm.state = "Failure" /\ bitcoind.fork > 0
    /\ Len(headers) = sm.ppBlkHtNext - 1
    /\ verif = headers[Len(headers)]

\* C3 (as stated): every step that takes DownloadingBlocks to FinishedDL
\* leaves the storage tip at endHeight, and every step that handles
\* FinishedDL discards the state machine, so the next process() starts a
\* fresh one at Begin.
C3_FinishedMeansAllStored ==
    [][ /\ (sm.state = "DownloadingBlocks" /\ sm'.state = "FinishedDL")
              => Len(headers') - 1 = sm'.endHeight
        /\ (sm.state = "FinishedDL" /\ sm' # sm)
              => sm' = NoSM /\ procPending' >= 1 ]_vars

\* C4 (as stated): if from some point on bitcoind stays connected and out of
\* initial block download (its tip is fixed, on the database's chain and not
\* below the storage tip throughout SpecLive), then eventually every header
\* up to that tip is stored and upToDate has been emitted.
C4_EventuallyUpToDate ==
    <>[](bitcoind.connected /\ ~bitcoind.ibd)
       => <>(Len(headers) = bitcoind.tip + 1 /\ emitted.upToDate >= 1)

\* The step handles the success of probe t while a state machine exists,
\* bitcoind is out of initial block download, the chain names agree (or the
\* database has none yet) and the reported height is the storage tip.
BeginAtTip(t) ==
    /\ tasks[t].kind = "probe" /\ HeadIs(t, "success")
    /\ tasks'[t] # tasks[t]
    /\ sm.state # "None"
    /\ ~tasks[t].info.ibd
    /\ chain \in {"", tasks[t].info.chain}
    /\ tasks[t].info.blocks = Len(headers) - 1

\* No header is appended and no download task is created in the step.
NoWriteNoSpawn ==
    /\ headers' = headers
    /\ \A u \in TaskIds : tasks'[u].kind = "dl" => tasks[u].kind = "dl"

\* C5 (as stated): every probe success that finds the storage tip at the
\* reported height emits upToDate and goes to End, appending no header and
\* creating no download task, also when the poll timer started the probe.
C5_AtTipAlwaysEmits ==
    [][ \A t \in TaskIds : BeginAtTip(t) =>
           /\ emitted'.upToDate = Count(emitted.upToDate)
           /\ emitted'.upToDate > emitted.upToDate \/ emitted.upToDate = MaxCount
           /\ sm'.state = "End"
           /\ NoWriteNoSpawn ]_vars

\* C5 (amended): every probe success that finds the storage tip at the
\* reported height goes to End, appending no header and creating no download
\* task; it emits upToDate exactly when the process() call that started the
\* probe was not the poll timer's process(true).
C5_AtTipEmitsUnlessSilent ==
    [][ \A t \in TaskIds : BeginAtTip(t) =>
           /\ emitted' = IF tasks[t].silent THEN emitted
                          ELSE [emitted EXCEPT !.upToDate = Count(@)]
           /\ sm'.state = "End"
           /\ NoWriteNoSpawn ]_vars

\* C5 witness: a probe the poll timer started has found the second state
\* machine at the tip: End, and upToDate was not emitted again.
C5_Witness ==
    /\ sm.state = "End" /\ sm.ht = Len(headers) - 1 /\ smGen = 2
    /\ emitted.upToDate = 1
    /\ \E t \in TaskIds : /\ tasks[t].kind = "probe" /\ tasks[t].silent
                           /\ tasks[t].gen = smGen /\ ~tasks[t].running

\* C6 (as stated): while bitcoind's tip is fixed, synchronizing and upToDate
\* are each emitted at most once; once upToDate is emitted every header up
\* to the tip is stored; and a catch-up that ended with upToDate enqueued a
\* save of the headers.
C6_CatchUpOnce ==
    bitcoind.mined = 0 =>
       /\ emitted.synchronizing <= 1
       /\ emitted.upToDate <= 1
       /\ emitted.upToDate = 1 => Len(headers) = bitcoind.tip + 1
       /\ (emitted.synchronizing = 1 /\ emitted.upToDate = 1) => saves >= 1

\* The step handles an errored signal of task t.
ErroredHandled(t) == HeadIs(t, "errored") /\ tasks'[t] # tasks[t]

\* C7: a task's errored handled while a state machine exists that is not in
\* Failure puts it in Failure and queues a process(); a state machine in
\* Failure changes only by being discarded, with synchFailure emitted and
\* the poll timer armed at polltime_ms; and synchFailure is emitted only in
\* the step that discards a state machine, so once for it however many
\* tasks error.
C7_ErroredMeansFailureOnce ==
    [][ /\ \A t \in TaskIds :
              (ErroredHandled(t) /\ sm.state \notin {"None", "Failure"})
                 => sm' = [sm EXCEPT !.state = "Failure", !.failed = TRUE]
                    /\ procPending' = procPending + 1
        /\ (sm.state = "Failure" /\ sm' # sm)
              => /\ sm' = NoSM
                 /\ emitted' = [emitted EXCEPT !.synchFailure = Count(@)]
                 /\ pollTimer' = polltime_ms
        /\ emitted'.synchFailure # emitted.synchFailure
              => sm.state \in {"Failure", "IBD"} /\ sm' = NoSM ]_vars

\* The step handles the success of probe t, whose reply said bitcoind is in
\* initial block download, while a state machine exists.
BeginInIBD(t) ==
    /\ tasks[t].kind = "probe" /\ HeadIs(t, "success")
    /\ tasks'[t] # tasks[t]
    /\ sm.state # "None" /\ tasks[t].info.ibd

\* The step creates a chain-info probe.
ProbeSpawned ==
    \E u \in TaskIds : tasks'[u].kind = "probe" /\ tasks[u].kind = "none"

\* C8 (as stated): a probe success reporting initial block download puts
\* the state machine in IBD, appending no header and creating no download
\* task; a state machine in IBD changes only by being discarded, with
\* synchFailure emitted and the poll timer armed at 60000 ms, again with no
\* header appended and no download task created; and while the poll timer
\* is armed at 60000 ms a probe is created only by the step of a timer (the
\* poll timer, or the reconnect's callProcess timer), or by a queued
\* process() in a run where bitcoind has reconnected.
C8_IBDBacksOff ==
    [][ /\ \A t \in TaskIds : BeginInIBD(t) =>
              sm' = [sm EXCEPT !.state = "IBD"] /\ NoWriteNoSpawn
        /\ (sm.state = "IBD" /\ sm' # sm)
              => /\ sm' = NoSM
                 /\ emitted' = [emitted EXCEPT !.synchFailure = Count(@)]
                 /\ pollTimer' = ibdPolltime_ms
                 /\ NoWriteNoSpawn
        /\ (pollTimer = ibdPolltime_ms /\ ProbeSpawned)
              => procPending' = procPending \/ bitcoind.lost > 0 ]_vars

\* The success of probe t, out of initial block download, is due to be
\* handled while a state machine exists, and the handler will meet a fatal
\* condition: the reported chain differs from the stored, non-empty one, or
\* the storage tip is above the reported height.
BeginFatal(t) ==
    /\ tasks[t].kind = "probe" /\ HeadIs(t, "success")
    /\ sm.state # "None" /\ ~tasks[t].info.ibd
    /\ \/ chain # "" /\ chain # tasks[t].info.chain
       \/ chain = tasks[t].info.chain /\ Len(headers) - 1 > tasks[t].info.blocks

\* C9: the handler never gets past a fatal condition (the probe's success
\* is not consumed as a normal one); the step that enters the fatal state
\* on it appends no header, creates no download task and leaves the stored
\* chain and the state machine's state as they were; and once the fatal
\* state is entered nothing changes any more.
C9_FatalWritesNothing ==
    [][ /\ \A t \in TaskIds : BeginFatal(t) => tasks'[t] = tasks[t]
        /\ (~fatal /\ fatal' /\ \E t \in TaskIds : BeginFatal(t))
              => /\ NoWriteNoSpawn
                 /\ chain' = chain
                 /\ sm'.state = sm.state
        /\ fatal => vars' = vars ]_vars

\* C9 witness: the fatal state was entered on a probe that reported a
\* height below the storage tip, on the database's chain.
C9_Witness ==
    /\ fatal /\ sm.state = "Begin"
    /\ chain = bitcoind.chain /\ sm.ht < Len(headers) - 1
    /\ \E t \in TaskIds : BeginFatal(t)

\* C10: a step never changes a stored chain name that is not empty.
C10_ChainWrittenOnce ==
    [][ chain # "" => chain' = chain ]_vars

\* C10 witness: the chain name written on a fresh database has outlived the
\* state machine that wrote it: a later probe found it set and went to End.
C10_Witness ==
    /\ chain = "main" /\ Len(headers) = 1
    /\ smGen = 2 /\ sm.state = "End"

\* C11: a SrvMgr is created and started at most once, and only once upToDate
\* has been emitted; the step that starts it is a run of the upToDate hook,
\* and no later upToDate emission starts another.
C11_SrvMgrStartedOnce ==
    /\ srv.started <= 1
    /\ srv.started = 1 => emitted.upToDate >= 1
    /\ (emitted.upToDate = 0 /\ srv.queued = 0) => srv.started = 0 /\ srv.conn

\* C11 witness: the SrvMgr is running, upToDate was emitted more than once
\* and every posted call of the hook has run.
C11_Witness ==
    /\ srv.started = 1 /\ ~fatal /\ srv.queued = 0
    /\ emitted.upToDate >= 2

\* The heights a download task's process() has yet to request, found by
\* running process() until next > to.
RECURSIVE WillRequest(_)
WillRequest(T) ==
    IF T.next > T.to THEN {}
    ELSE LET T1 == DLProcess(T)
         IN (T1.reqs \ T.reqs) \cup WillRequest([T1 EXCEPT !.reqs = T.reqs])

\* The residue class of a download task: from, from + stride, ... up to to.
ResidueClass(T) == {h \in T.from .. T.to : (h - T.from) % T.stride = 0}

\* The download tasks a step created.
SpawnedDL == {t \in TaskIds : tasks[t].kind = "none" /\ tasks'[t].kind = "dl"}

\* C12: the step of State::GetBlocks creates nTasks = min(targetHeight -
\* storage tip, DL_CONCURRENCY) tasks, task i with from = base + i, to =
\* targetHeight, stride = nTasks; the heights they request (the one under
\* way and the ones process() will go on to request) are pairwise disjoint
\* and together are base .. targetHeight.  Afterwards a task requests only
\* the next height of its class, hands over only blocks of heights it has
\* requested and not yet received, and when it emits success it has
\* requested and received every height of its class.
C12_TasksPartitionRange ==
    [][ /\ (sm.state # "DownloadingBlocks" /\ sm'.state = "DownloadingBlocks")
            => LET base == Len(headers)
                   nTasks == Min(sm'.ht - (base - 1), DL_CONCURRENCY)
                   All(t) == tasks'[t].reqs \cup WillRequest(tasks'[t])
               IN /\ Cardinality(SpawnedDL) = nTasks
                  /\ \A i \in 0 .. nTasks - 1 : \E t \in SpawnedDL :
                        /\ tasks'[t].from = base + i
                        /\ tasks'[t].to = sm'.ht
                        /\ tasks'[t].stride = nTasks
                  /\ \A t, u \in SpawnedDL : t # u => All(t) \cap All(u) = {}
                  /\ UNION {All(t) : t \in SpawnedDL} = base .. sm'.ht
                  /\ \A t \in SpawnedDL : All(t) = ResidueClass(tasks'[t])
        /\ \A t \in TaskIds :
              (tasks[t].kind = "dl" /\ tasks[t].running /\ tasks'[t].running)
                 => LET T == tasks[t]
                        U == tasks'[t]
                    IN /\ U.reqs \ T.reqs \subseteq ({T.next} \cap ResidueClass(T))
                       /\ \A k \in Len(T.msgs) + 1 .. Len(U.msgs) :
                             /\ (U.msgs[k].k = "put")
                                   => /\ U.msgs[k].b.ht \in T.reqs \ U.reqs
                                      /\ U.goodCt = T.goodCt + 1
                             /\ (U.msgs[k].k = "success")
                                   => /\ U.reqs = {} /\ WillRequest(U) = {}
                                      /\ U.goodCt = Cardinality(ResidueClass(U))
      ]_vars

\* C12 witness: two download tasks of one state machine, one of them with
\* two heights in its class, have both emitted success.
C12_Witness ==
    \E t, u \in TaskIds :
       /\ t # u
       /\ tasks[t].kind = "dl" /\ tasks[u].kind = "dl"
       /\ tasks[t].gen = tasks[u].gen
       /\ tasks[t].stride = 2 /\ tasks[t].expectedCt = 2
       /\ tasks[t].running /\ HeadIs(t, "success") /\ tasks[t].goodCt = 2
       /\ tasks[u].running /\ HeadIs(u, "success")

\* C13 (as stated): whenever a download task issues the request for a
\* height h (its getblockhash), h is above the storage tip of that moment,
\* also for a task whose state machine was discarded.
C13_RequestsAboveTip ==
    [][ \A t \in TaskIds :
           tasks'[t].kind = "dl"
              => \A h \in tasks'[t].reqs \ tasks[t].reqs : h > Len(headers) - 1 ]_vars

\* The step runs the putBlock message at the head of what task t posted.
PutBlockRuns(t) ==
    /\ HeadIs(t, "put")
    /\ tasks' = [tasks EXCEPT ![t] = PopMsg(@)]

ReplyValid(r) ==
    /\ r.hashLen = HASH_WIDTH
    /\ HeaderLen(r.rawLen) = HEADER_SIZE
    /\ HashRev(r.hdr) = r.hash

\* The message do_get sets for replies that fail its tests.
ReplyError(r) ==
    IF r.hashLen # HASH_WIDTH THEN "invalid hash"
    ELSE IF HeaderLen(r.rawLen) # HEADER_SIZE THEN "bad size"
    ELSE "hash mismatch"

\* C15: when a download task has the replies for a height h, it hands the
\* block over (one putBlock message, with the header received) exactly when
\* the hash has hash width, the header has header size and the header
\* hashes to that hash; otherwise it emits errored with errorCode h and the
\* message for the first test that failed, and hands nothing over.  A task
\* posts a putBlock message in no other step.
C15_HandsOverOnlyValidBlocks ==
    [][ \A t \in TaskIds :
           LET T == tasks[t]
               U == tasks'[t]
               r == U.rep
               new == Len(T.msgs) + 1 .. Len(U.msgs)
           IN /\ (T.kind = "dl" /\ T.running /\ U.running /\ U.rep # T.rep)
                   => /\ r.h \in T.reqs /\ r.h \notin U.reqs
                      /\ Len(U.msgs) = Len(T.msgs) + 1
                      /\ IF ReplyValid(r)
                         THEN /\ U.msgs[Len(U.msgs)] = Msg("put", r.hdr)
                              /\ U.err = T.err /\ U.goodCt = T.goodCt + 1
                         ELSE /\ U.msgs[Len(U.msgs)].k = "errored"
                              /\ U.err = ReplyError(r) /\ U.errCode = r.h
                              /\ U.goodCt = T.goodCt
              /\ \A k \in new :
                    (U.kind = "dl" /\ U.msgs[k].k = "put")
                       => /\ T.kind = "dl" /\ U.rep # T.rep /\ ReplyValid(r)
                          /\ U.msgs[k].b = r.hdr /\ r.hdr.ht = r.h ]_vars

\* C15 witness: a download task got a header of the right size that does
\* not hash to the hash it was given, and emitted errored with "hash
\* mismatch" for that height.
C15_Witness ==
    \E t \in TaskIds :
       /\ tasks[t].kind = "dl" /\ tasks[t].running
       /\ tasks[t].rep.hashLen = HASH_WIDTH
       /\ HeaderLen(tasks[t].rep.rawLen) = HEADER_SIZE
       /\ HashRev(tasks[t].rep.hdr) # tasks[t].rep.hash
       /\ tasks[t].err = "hash mismatch" /\ tasks[t].errCode = tasks[t].rep.h
       /\ tasks[t].msgs # << >>
       /\ tasks[t].msgs[Len(tasks[t].msgs)].k = "errored"

\* C16: until bitcoind has given a first good connection no process() has
\* run or is due: there is no state machine and never was, no task, no
\* queued process(), and neither the callProcess timer nor the poll timer
\* is armed.  The step of allConnectionsLost stops the poll timer and the
\* callProcess timer and starts the wait timer.  The step of
\* gotFirstGoodConnection stops the wait timer, runs every connected hook
\* and arms the one callProcess timer; that timer is armed by no other
\* step, and once armed it is either stopped by allConnectionsLost or
\* fires once, calling process().
C16_GateKicksProcessOnce ==
    [][ /\ ~bitcoind'.ever
            => /\ sm' = NoSM /\ smGen' = 0 /\ procPending' = 0
               /\ ~callProcessTimer' /\ pollTimer' = 0
               /\ \A t \in TaskIds : tasks'[t] = NoTask
        /\ bitcoind'.lost > bitcoind.lost
            => /\ pollTimer' = 0 /\ ~callProcessTimer' /\ waitTimer'
               /\ hooks' = hooks + 1
        /\ (~bitcoind.connected /\ bitcoind'.connected)
            => /\ hooks > 0
               /\ ~waitTimer' /\ callProcessTimer' /\ hooks' = 0
               /\ sm' = sm /\ tasks' = tasks /\ procPending' = procPending
        /\ (~callProcessTimer /\ callProcessTimer')
            => ~bitcoind.connected /\ bitcoind'.connected
        /\ (callProcessTimer /\ ~callProcessTimer')
            => bitcoind'.lost > bitcoind.lost \/ CallProcessFire ]_vars

\* C16 witness: the connections were lost and regained while the first
\* probe was outstanding, and the callProcess timer has fired a second
\* time: the first state machine, still in Begin, has two probes running.
C16_Witness ==
    /\ bitcoind.lost = 1 /\ bitcoind.connected
    /\ hooks = 0 /\ ~waitTimer /\ ~callProcessTimer
    /\ smGen = 1 /\ sm.state = "Begin" /\ procPending = 0
    /\ \E t, u \in TaskIds :
          /\ t # u
          /\ tasks[t].kind = "probe" /\ tasks[t].running /\ tasks[t].msgs = << >>
          /\ tasks[u].kind = "probe" /\ tasks[u].running /\ tasks[u].msgs = << >>

\* C17 (as stated): an RPCMsgId just built from text, by either string
\* constructor or either string assignment, has type String; one built or
\* assigned from an integer has type Integer; a default-constructed or
\* cleared one has type Null.
C17_TypeFollowsSource ==
    LET o == rpcIds.obj[rpcIds.on]
    IN /\ rpcIds.op \in {"strRef", "strMove", "assignStrRef", "assignStrMove"}
           => o.typ = "String"
       /\ rpcIds.op \in {"int", "assignInt"} => o.typ = "Integer"
       /\ rpcIds.op \in {"default", "clear"} => o.typ = "Null"

\* C18 (as stated): while a state machine exists, every block held in
\* ppBlocks has a height at or above ppBlkHtNext.
C18_NoKeyBelowNext ==
    sm.state # "None" => \A b \in sm.ppBlocks : b.ht >= sm.ppBlkHtNext

\* C19 (as stated): while a state machine exists, every block held in
\* ppBlocks has a height from startheight to endHeight, and a step that
\* appends headers appends only heights in that range.
C19_KeysWithinRange ==
    [][ /\ sm'.state # "None"
            => \A b \in sm'.ppBlocks :
                  sm'.startheight <= b.ht /\ b.ht <= sm'.endHeight
        /\ \A i \in Len(headers) + 1 .. Len(headers') :
              /\ sm.state # "None"
              /\ sm.startheight <= headers'[i].ht
              /\ headers'[i].ht <= sm.endHeight ]_vars

\* C21 (as stated): a callback of a download task that was started under
\* an earlier state machine (putBlock, success, errored: the step takes a
\* message of that task off the Controller's queue) leaves the current
\* state machine as it was.
StaleCallback(t) ==
    /\ tasks[t].kind = "dl" /\ tasks[t].gen < smGen
    /\ sm.state # "None"
    /\ Len(tasks[t].msgs) > 0
    /\ tasks'[t].msgs = Tail(tasks[t].msgs)

C21_StaleTaskNoEffect ==
    [][ \A t \in TaskIds : StaleCallback(t) => sm' = sm ]_vars

\* C22 (as stated): from the moment a state machine has been in Failure,
\* and for as long as it is the Controller's state machine, no step appends
\* a header and no step inserts a block into ppBlocks or drains one from it.
C22_FailureFreezes ==
    [][ sm.failed =>
          /\ headers' = headers
          /\ sm'.failed => sm'.ppBlocks = sm.ppBlocks ]_vars

\* C23 (as stated): a download task never has more than max_q requests
\* under way; goodCt + q_ct never exceeds expectedCt; and a delivery that
\* does not complete the task queues exactly one re-entry per increment of
\* q_ct, stopping only when goodCt + q_ct = expectedCt or q_ct = max_q.
Delivers(T, U) == T.kind = "dl" /\ T.running /\ U.goodCt = T.goodCt + 1

C23_OutstandingWithinMaxQ ==
    [][ \A t \in TaskIds :
          LET T == tasks[t]
              U == tasks'[t]
          IN /\ U.kind = "dl" =>
                  /\ Cardinality(U.reqs) <= max_q
                  /\ U.goodCt + U.q_ct <= U.expectedCt
             /\ (Delivers(T, U) /\ U.goodCt < U.expectedCt) =>
                  /\ U.agains - T.agains = U.q_ct - Max(T.q_ct - 1, 0)
                  /\ U.q_ct >= Max(T.q_ct - 1, 0)
                  /\ U.goodCt + U.q_ct = U.expectedCt \/ U.q_ct = max_q ]_vars

\* A task with max_q requests under way and heights still to request.
C23_Witness ==
    \E t \in TaskIds :
       /\ tasks[t].kind = "dl" /\ tasks[t].running
       /\ Cardinality(tasks[t].reqs) = max_q /\ tasks[t].q_ct = max_q
       /\ tasks[t].goodCt + tasks[t].q_ct < tasks[t].expectedCt

\* A re-entry of process(): one queued AGAIN() is taken and run.
ReEnters(T, U) ==
    /\ T.kind = "dl" /\ T.running /\ U.running
    /\ U.agains = T.agains - 1 /\ U.goodCt = T.goodCt

HasMsg(T, k) == \E i \in 1 .. Len(T.msgs) : T.msgs[i].k = k

\* A re-entry with maybeDone set signals success if goodCt >= expectedCt and
\* otherwise errored with errorCode = expectedCt - goodCt and the message
\* 'missing N headers'; success is never signalled while goodCt < expectedCt.
SignalsOnReEntry(T, U) ==
    /\ (ReEnters(T, U) /\ T.maybeDone) =>
         IF T.goodCt >= T.expectedCt
         THEN U.msgs = Append(T.msgs, Msg("success", NoHdr))
         ELSE /\ U.msgs = Append(T.msgs, Msg("errored", NoHdr))
              /\ U.errCode = T.expectedCt - T.goodCt
              /\ U.err = "missing headers"
    /\ (U.kind = "dl" /\ U.running /\ HasMsg(U, "success")) =>
         U.goodCt >= U.expectedCt

\* C24 (as stated): the step by which a download task's next height comes
\* to exceed `to` sets maybeDone and queues one re-entry of process(); a
\* re-entry with maybeDone set signals as SignalsOnReEntry says.
C24_MaybeDoneWhenNextPastTo ==
    [][ \A t \in TaskIds :
          LET T == tasks[t]
              U == tasks'[t]
          IN /\ (T.kind = "dl" /\ T.running /\ U.running
                   /\ T.next <= T.to /\ U.next > U.to)
                  => U.maybeDone /\ U.agains = T.agains + 1
             /\ SignalsOnReEntry(T, U) ]_vars

\* C24 (amended): maybeDone is set, and one re-entry queued, by the delivery
\* that brings goodCt to expectedCt, when next already exceeds `to`; a
\* re-entry with maybeDone set signals as SignalsOnReEntry says.
C24_MaybeDoneOnLastDelivery ==
    [][ \A t \in TaskIds :
          LET T == tasks[t]
              U == tasks'[t]
          IN /\ (T.kind = "dl" /\ T.running /\ U.running) =>
                  ((~T.maybeDone /\ U.maybeDone)
                     <=> (Delivers(T, U) /\ U.goodCt >= U.expectedCt))
             /\ (T.kind = "dl" /\ T.running /\ ~T.maybeDone /\ U.maybeDone) =>
                  U.next > U.to /\ U.agains = T.agains + 1
             /\ SignalsOnReEntry(T, U) ]_vars

\* A task over several heights that has signalled success.
C24_Witness ==
    \E t \in TaskIds :
       /\ tasks[t].kind = "dl" /\ tasks[t].running /\ tasks[t].maybeDone
       /\ tasks[t].expectedCt >= 2 /\ HasMsg(tasks[t], "success")

\* C25 (as stated): a task's expectedCt is the ceiling of
\* (to - from + 1) / stride, which is the number of heights from, from +
\* stride, ... that do not exceed `to`; it is 1 when stride > to - from + 1.
Progression(T) == {h \in T.from .. T.to : (h - T.from) % T.stride = 0}

C25_ExpectedCtIsCeiling ==
    \A t \in TaskIds :
       LET T == tasks[t]
           n == T.to - T.from + 1
       IN (T.kind = "dl" /\ T.running) =>
             /\ T.expectedCt * T.stride >= n
             /\ (T.expectedCt - 1) * T.stride < n
             /\ T.expectedCt = Cardinality(Progression(T))
             /\ T.stride > n => T.expectedCt = 1

\* A task over more than one height whose stride exceeds its range.
C25_Witness ==
    \E t \in TaskIds :
       /\ tasks[t].kind = "dl" /\ tasks[t].running
       /\ tasks[t].from < tasks[t].to
       /\ tasks[t].stride > tasks[t].to - tasks[t].from + 1
       /\ tasks[t].expectedCt = 1

\* C26 (as stated): with every request answered validly, a re-entry that
\* finds a height left requests exactly that height, which is not under way
\* and lies in the progression, and moves on; a delivery takes one height
\* off the requests under way and hands over that one block; every height
\* of the progression below `next` is either under way or counted in goodCt;
\* a task short of expectedCt has a request under way or a re-entry queued;
\* and a running task eventually signals success.
Below(T) == {h \in Progression(T) : h < T.next}

C26_TaskCompletes ==
    /\ [][ \A t \in TaskIds :
             LET T == tasks[t]
                 U == tasks'[t]
             IN /\ (ReEnters(T, U) /\ T.next <= T.to) =>
                     /\ T.next \in Progression(T) /\ T.next \notin T.reqs
                     /\ U.reqs = T.reqs \cup {T.next}
                     /\ U.next = T.next + T.stride
                /\ Delivers(T, U) =>
                     \E h \in T.reqs :
                        /\ U.reqs = T.reqs \ {h}
                        /\ U.msgs = Append(T.msgs, Msg("put", Blk(h)))
                /\ (U.kind = "dl" /\ U.running) =>
                     /\ U.goodCt + Cardinality(U.reqs) = Cardinality(Below(U))
                     /\ U.goodCt < U.expectedCt => (U.reqs # {} \/ U.agains > 0) ]_vars
    /\ \A t \in TaskIds :
          (tasks[t].kind = "dl" /\ tasks[t].running) ~> HasMsg(tasks[t], "success")

\* A task over several heights, all handed over, that has signalled success.
C26_Witness ==
    \E t \in TaskIds :
       /\ tasks[t].kind = "dl" /\ tasks[t].running
       /\ tasks[t].expectedCt >= 3 /\ tasks[t].goodCt = tasks[t].expectedCt
       /\ tasks[t].reqs = {} /\ HasMsg(tasks[t], "success")

\* C27 (as stated): the success handler of the chain-info probe changes a
\* state machine only while it is in Begin, and State::GetBlocks runs at
\* most once for a state machine.
ProbeSuccessHandled(t) ==
    /\ tasks[t].kind = "probe" /\ HeadIs(t, "success")
    /\ tasks'[t].msgs # tasks[t].msgs

GetBlocksRuns == sm.state = "GetBlocks" /\ sm'.state = "DownloadingBlocks"

C27_ProbeActsInBeginOnly ==
    [][ /\ \A t \in TaskIds :
             (ProbeSuccessHandled(t) /\ sm' # sm) => sm.state = "Begin"
        /\ GetBlocksRuns => ~sm.ranGetBlocks ]_vars

\* ------------------------------------------------------------------ C28
\* A download task's success message leaves the queue: the success lambda of
\* add_DLHeaderTask and the stop() hook run.
SuccessHandled(t) ==
    /\ tasks[t].kind = "dl" /\ HeadIs(t, "success")
    /\ tasks'[t].msgs # tasks[t].msgs

\* A download task's finished message leaves the queue: rmTask erases it.
Removed(t) ==
    /\ tasks[t].kind = "dl" /\ HeadIs(t, "finished")
    /\ isTaskDeleted(t)'

Constructed(t) == tasks[t].kind # "dl" /\ tasks'[t].kind = "dl"

\* C29: whenever process() can run State::GetBlocks, targetHeight is
\* non-negative and above the storage tip; the step starts at least one
\* download task, each constructed with from <= to and stride >= 1, and no
\* fatal assertion fires.
C29_GetBlocksHasWork ==
    [][ /\ sm.state = "GetBlocks" =>
              /\ sm.ht >= 0 /\ sm.ht > Len(headers) - 1
              /\ ~GetBlocksFatal(sm)
        /\ GetBlocksRuns =>
              /\ ~fatal'
              /\ \E t \in TaskIds : Constructed(t)
              /\ \A t \in TaskIds :
                    Constructed(t) => /\ tasks'[t].from <= tasks'[t].to
                                      /\ tasks'[t].stride >= 1
                                      /\ tasks'[t].expectedCt >= 1 ]_vars

\* State::GetBlocks has run above a non-empty storage and started two
\* download tasks.
C29_Witness ==
    /\ sm.state = "DownloadingBlocks" /\ sm.ranGetBlocks /\ sm.startheight > 0
    /\ \E t, u \in TaskIds :
          /\ t # u /\ tasks[t].kind = "dl" /\ tasks[u].kind = "dl"
          /\ tasks[t].gen = smGen /\ tasks[u].gen = smGen
          /\ tasks[t].from < tasks[u].from

====
